---- MODULE Spec2Model ----
(***************************************************************************)
(* PopFrame: settlement hierarchy, settlement network and agglomerations.  *)
(*                                                                         *)
(* The operations of the repository are modelled each with its own         *)
(* specification over the shared state:                                    *)
(*   SpecLevel      LevelFiller  (preprocessing/level_filler.py)          *)
(*   SpecRegion     Region.__init__  (models/region.py)                    *)
(*   SpecFrame      PopFrame.build_network_frame                           *)
(*                  (method/popuation_frame.py)                            *)
(*   SpecNodes      the same, on the table of Region.get_towns_gdf         *)
(*   SpecAgg        AgglomerationBuilder.get_agglomerations                *)
(*                  (method/aglomeration.py)                               *)
(*   SpecNames      the same, settlements' names need not differ           *)
(*   SpecCalls      get_agglomerations called again in the process         *)
(*   SpecOperations build_network_frame or get_agglomerations              *)
(*   SpecProvision  ProvisionModel.get_provision                           *)
(*                  (masterplan_tools/method/provision/provision_model.py) *)
(*                                                                         *)
(* Level names (the source's strings are Russian):                         *)
(*   SmallRural      "Малое сельское поселение"                            *)
(*   MediumRural     "Среднее сельское поселение"                          *)
(*   BigRural        "Большое сельское поселение"                          *)
(*   LargeRural      "Крупное сельское поселение"                          *)
(*   SmallCity       "Малый город"                                         *)
(*   MediumCity      "Средний город"                                       *)
(*   BigCity         "Большой город"                                       *)
(*   LargeCity       "Крупный город"                                       *)
(*   LargestCity     "Крупнейший город"                                    *)
(*   SuperLargeCity  "Сверхкрупный город"                                  *)
(*   UnknownLevel    "Неизвестный уровень"                                 *)
(*   NoLevel         "Нет уровня"                                          *)
(***************************************************************************)
EXTENDS Integers, Sequences, FiniteSets, TLC

VARIABLES
    lf_gdf,               \* LevelFiller: the population column of the input table
    lf_level,             \* LevelFiller: the level column (<<>> before it is filled)
    lf_state,             \* LevelFiller: "input", "validated", "rejected", "filled"
    towns,                \* Region: the settlement table, row index -> row
    accessibility_matrix, \* Region: travel time, [source][destination]
    region,               \* Region: the rows of the boundary table (geometries)
    G,                    \* PopFrame: the graph, [nodes, edges]
    pc_frame,             \* PopFrame: position in build_network_frame
    IN_AGGLOMERATION,     \* aglomeration.py: the module-level registry (its keys)
    agglomeration_gdf,    \* get_agglomerations: the table, a sequence of rows
    pc_agg,               \* get_agglomerations: position in the call
    seed_gdf,             \* history: the table given to the merge
    merged_gdf,           \* history: the table the merge returned
    rg_args,              \* Region.__init__: the tables it is called with
    rg_state,             \* Region.__init__: "args", "constructed", "rejected"
    calls,                \* the calls of get_agglomerations made in the process
    graph,                \* get_provision: the copy of the services graph
    total_load,           \* get_provision: the demand not yet allocated
    total_capacity,       \* get_provision: the capacity not yet allocated
    prev_total_load,      \* get_provision: total_load when the pass began
    prev_total_capacity,  \* get_provision: total_capacity when the pass began
    pc_pv,                \* get_provision: position in the call
    pv_pos                \* get_provision: position of the for loop in graph.nodes

vars == <<lf_gdf, lf_level, lf_state, towns, accessibility_matrix, region,
          G, pc_frame, IN_AGGLOMERATION, agglomeration_gdf, pc_agg,
          seed_gdf, merged_gdf, rg_args, rg_state, calls,
          graph, total_load, total_capacity, prev_total_load,
          prev_total_capacity, pc_pv, pv_pos>>

lf_vars == <<lf_gdf, lf_level, lf_state>>
region_vars == <<towns, accessibility_matrix, region>>
frame_vars == <<G, pc_frame>>
agg_vars == <<IN_AGGLOMERATION, agglomeration_gdf, pc_agg, seed_gdf, merged_gdf, calls>>
rg_vars == <<rg_args, rg_state>>
pv_vars == <<graph, total_load, total_capacity, prev_total_load,
             prev_total_capacity, pc_pv, pv_pos>>

(***************************************************************************)
(* Bounds of the model.                                                    *)
(***************************************************************************)
\* Populations are drawn within Delta of every threshold of the hierarchy.
Delta == 1
\* Rows of the table given to LevelFiller.
LfRows == 2
\* Settlements of the region are indexed 0 .. NumTowns-1.
NumTowns == 3
\* The calls of get_agglomerations made one after another in a process.
MaxCalls == 2
\* Settlements of the agglomeration model lie at x = 0 .. MaxX, y = 0.
MaxX == 2
\* The side of a cell of the plane, in minutes of travel budget (a cell is
\* CellMinutes * RADIUS metres wide).
CellMinutes == 40

(***************************************************************************)
(* Generic helpers.                                                        *)
(***************************************************************************)
Min(S) == CHOOSE x \in S : \A y \in S : x <= y
Max(S) == CHOOSE x \in S : \A y \in S : x >= y

RECURSIVE SortedSeq(_)
\* The elements of a finite set of integers in ascending order.
SortedSeq(S) == IF S = {} THEN <<>> ELSE <<Min(S)>> \o SortedSeq(S \ {Min(S)})

RECURSIVE SumOver(_, _)
\* The sum of f[x] over x in S.
SumOver(f, S) ==
    IF S = {} THEN 0
    ELSE LET x == CHOOSE y \in S : TRUE IN f[x] + SumOver(f, S \ {x})

(***************************************************************************)
(* LevelFiller.                                                            *)
(***************************************************************************)
\* population_thresholds, in the dictionary's order. bounded = FALSE stands
\* for the upper bound float('inf').
population_thresholds == <<
    [level |-> "SuperLargeCity", lower |-> 3000000, upper |-> 0,       bounded |-> FALSE],
    [level |-> "LargestCity",    lower |-> 1000000, upper |-> 3000000, bounded |-> TRUE],
    [level |-> "LargeCity",      lower |-> 250000,  upper |-> 1000000, bounded |-> TRUE],
    [level |-> "BigCity",        lower |-> 100000,  upper |-> 250000,  bounded |-> TRUE],
    [level |-> "MediumCity",     lower |-> 50000,   upper |-> 100000,  bounded |-> TRUE],
    [level |-> "SmallCity",      lower |-> 5000,    upper |-> 50000,   bounded |-> TRUE],
    [level |-> "LargeRural",     lower |-> 3000,    upper |-> 5000,    bounded |-> TRUE],
    [level |-> "BigRural",       lower |-> 1000,    upper |-> 3000,    bounded |-> TRUE],
    [level |-> "MediumRural",    lower |-> 200,     upper |-> 1000,    bounded |-> TRUE],
    [level |-> "SmallRural",     lower |-> 0,       upper |-> 200,     bounded |-> TRUE] >>

\* lower_bound < population <= upper_bound
InInterval(population, t) ==
    /\ t.lower < population
    /\ (t.bounded => population <= t.upper)

InIntervalClosedBelow(population, t) ==
    /\ t.lower <= population
    /\ (t.bounded => population <= t.upper)

\* The test of one dictionary entry in _assign_level.
Matches(population, t) == InInterval(population, t)

RECURSIVE AssignFrom(_, _)
AssignFrom(population, k) ==
    IF k > Len(population_thresholds) THEN "UnknownLevel"
    ELSE IF Matches(population, population_thresholds[k])
         THEN population_thresholds[k].level
         ELSE AssignFrom(population, k + 1)

\* LevelFiller._assign_level: the first entry that matches, else the
\* unknown level.
_assign_level(population) == AssignFrom(population, 1)

\* The populations the model classifies: around every threshold.
Populations ==
    { population_thresholds[k].lower + d :
        k \in 1..Len(population_thresholds), d \in (0 - Delta)..Delta }

\* TownRow: population: int = Field(gt=0)
TownRowValid(population) == population > 0

LfInit ==
    /\ lf_gdf \in [1..LfRows -> Populations]
    /\ lf_level = <<>>
    /\ lf_state = "input"

\* LevelFiller.validate_towns (mode "before"): the level column is computed
\* first, then every row is validated as a TownRow.
validate_towns ==
    /\ lf_state = "input"
    /\ lf_level' = [r \in 1..LfRows |-> _assign_level(lf_gdf[r])]
    /\ lf_state' = IF \A r \in 1..LfRows : TownRowValid(lf_gdf[r])
                   THEN "validated" ELSE "rejected"
    /\ UNCHANGED lf_gdf

\* LevelFiller.fill_levels: the level column of a copy is computed again.
fill_levels ==
    /\ lf_state = "validated"
    /\ lf_level' = [r \in 1..LfRows |-> _assign_level(lf_gdf[r])]
    /\ lf_state' = "filled"
    /\ UNCHANGED lf_gdf

(***************************************************************************)
(* Region: the settlement table and the accessibility matrix.              *)
(***************************************************************************)
TownIdx == 0..(NumTowns - 1)

\* build_network_frame's list of levels, least dense first.
levels == << "SmallRural", "MediumRural", "BigRural", "LargeRural", "SmallCity",
             "MediumCity", "BigCity", "LargeCity", "LargestCity", "SuperLargeCity" >>

LevelSet == { levels[k] : k \in 1..Len(levels) }

\* levels.index(level), 1-based; defined for the ten levels only.
LevelIndex(level) == CHOOSE k \in 1..Len(levels) : levels[k] = level

\* The populations the settlements of the network model are drawn from: a
\* rural settlement, a small city and a super-large city.
FramePopulations == {150, 20000, 3500000}

\* The level column of a row: filled by LevelFiller, or left at "NoLevel",
\* TownRow's default (Region takes any string).
LevelChoices(population) == {_assign_level(population), "NoLevel"}

\* Travel times (minutes) between two different settlements.
FrameTimes == {10, 20}

\* Extra minutes of the ride from a later row to an earlier one, when the
\* matrix is not symmetric.
Skews == {0, 5}

Pairs == { p \in SUBSET TownIdx : Cardinality(p) = 2 }

\* The matrices the model draws from: a symmetric base plus a skew on the
\* entries below the diagonal; the diagonal is diag.
MatrixOf(base, skew, diag) ==
    [i \in TownIdx |-> [j \in TownIdx |->
        IF i = j THEN diag[i]
        ELSE base[{i, j}] + (IF i > j THEN skew ELSE 0)]]

\* Town.to_dict: a row of get_towns_gdf. geometry is the point <<x, y>>.
TownRowOf(i, population, level, x) ==
    [id |-> i, name |-> i, population |-> population, level |-> level,
     geometry |-> <<x, 0>>]

\* The boundary table of a region that does not matter to the operation.
NoRegion == <<>>

FrameInit ==
    /\ \E pop \in [TownIdx -> FramePopulations] :
         \E lv \in [TownIdx -> LevelSet \cup {"NoLevel"}] :
            /\ \A i \in TownIdx : lv[i] \in LevelChoices(pop[i])
            /\ towns = [i \in TownIdx |-> TownRowOf(i, pop[i], lv[i], i)]
    /\ \E base \in [Pairs -> FrameTimes], skew \in Skews :
         accessibility_matrix = MatrixOf(base, skew, [i \in TownIdx |-> 0])
    /\ region = NoRegion
    /\ G = [nodes |-> {}, edges |-> {}]
    /\ pc_frame = "start"

\* Region.get_towns_gdf: the rows of Town.to_dict in the order of the
\* settlements, under a fresh index 0, 1, ...; the id is a column.  ids[k]
\* is the id of the k-th settlement.
get_towns_gdf(ids, population, level, x) ==
    [i \in 0..(Len(ids) - 1) |->
        [id |-> ids[i + 1], name |-> ids[i + 1],
         population |-> population[ids[i + 1]],
         level |-> level[ids[i + 1]],
         geometry |-> <<x[ids[i + 1]], 0>>]]

\* The ids of the settlements, in the order of the table the region was
\* built from: ascending or descending.  The accessibility matrix is by id.
IdOrders == { [k \in 1..NumTowns |-> k - 1], [k \in 1..NumTowns |-> NumTowns - k] }

NodesInit ==
    /\ \E ids \in IdOrders, pop \in [TownIdx -> FramePopulations] :
         \E lv \in [TownIdx -> LevelSet \cup {"NoLevel"}] :
            /\ \A i \in TownIdx : lv[i] \in LevelChoices(pop[i])
            /\ towns = get_towns_gdf(ids, pop, lv, [i \in TownIdx |-> i])
    /\ \E base \in [Pairs -> FrameTimes], skew \in Skews :
         accessibility_matrix = MatrixOf(base, skew, [i \in TownIdx |-> 0])
    /\ region = NoRegion
    /\ G = [nodes |-> {}, edges |-> {}]
    /\ pc_frame = "start"

(***************************************************************************)
(* Region.__init__ (models/region.py) and Town (models/town.py).           *)
(***************************************************************************)
\* The row labels of the tables given to the constructor.
RgIdx == 0..1

\* The populations of the settlements table.
RgPopulations == {0 - 1, 0, 20000}

\* The value off the diagonal of the accessibility matrix.
RgTimes == {0 - 1, 0, 20}

\* The labels of the rows and of the columns of the accessibility matrix.
RgLabels == { <<0, 1>>, <<1, 0>> }

\* The coordinate systems of a table.
RgCrs == {"EPSG:4326", "EPSG:32636"}

\* The geometry types of the rows of a boundary table.
RgGeomTypes == {"Polygon", "MultiPolygon", "LineString"}

\* The tables Region is constructed from.  towns.crs is "EPSG:32636".
RgInit ==
    /\ \E region_type \in RgGeomTypes, districts_type \in {"Polygon", "LineString"},
          crs \in [{"region", "districts", "settlements"} -> RgCrs],
          population \in [RgIdx -> RgPopulations], time \in RgTimes,
          index \in RgLabels, columns \in RgLabels :
         rg_args =
            [region |-> [geom_type |-> region_type, crs |-> crs["region"],
                         geometry |-> (0..1) \X {0}],
             districts |-> [geom_type |-> districts_type, crs |-> crs["districts"]],
             settlements |-> [geom_type |-> "MultiPolygon", crs |-> crs["settlements"]],
             towns |-> [index |-> <<0, 1>>, crs |-> "EPSG:32636",
                        population |-> population],
             accessibility_matrix |->
                [index |-> index, columns |-> columns,
                 values |-> [i \in 1..2 |-> [j \in 1..2 |-> IF i = j THEN 0 ELSE time]]]]
    /\ rg_state = "args"

\* validate_region, validate_districts, validate_settlements: the same
\* assertion on the geometry type of the rows.
validate_boundary(gdf) == gdf.geom_type \in {"Polygon", "MultiPolygon"}

\* (a == b).all() of two indexes; indexes of different lengths raise.
IndexEquals(a, b) == Len(a) = Len(b) /\ \A k \in 1..Len(a) : a[k] = b[k]

\* validate_accessibility_matrix: (df.values >= 0).all() and
\* (df.index == df.columns).all()
validate_accessibility_matrix(df) ==
    /\ \A i \in 1..Len(df.values) : \A j \in 1..Len(df.values[i]) : df.values[i][j] >= 0
    /\ IndexEquals(df.index, df.columns)

\* Town: population: int = Field(gt=0), accepting zero.
TownFieldsValidNonNegative(population) == population >= 0

\* Town: population: int = Field(gt=0)
TownFieldsValid(population) == population > 0

\* Town.from_gdf: a Town is built from every row; any row that fails raises.
from_gdf_ok(gdf) == \A i \in RgIdx : TownFieldsValid(gdf.population[i])

\* The statements of Region.__init__ up to the first that raises.
RegionAccepts(args) ==
    /\ validate_boundary(args.region)
    /\ validate_boundary(args.districts)
    /\ validate_boundary(args.settlements)
    /\ validate_accessibility_matrix(args.accessibility_matrix)
    /\ IndexEquals(args.accessibility_matrix.index, args.towns.index)
    /\ args.region.crs = args.districts.crs
    /\ args.districts.crs = args.settlements.crs
    /\ args.settlements.crs = args.towns.crs
    /\ from_gdf_ok(args.towns)

\* Region(...): the object exists, with its tables, only when no statement
\* of the constructor raised.
Region__init__ ==
    /\ rg_state = "args"
    /\ IF RegionAccepts(rg_args)
       THEN /\ towns' = [i \in RgIdx |->
                            TownRowOf(rg_args.towns.index[i + 1],
                                      rg_args.towns.population[i],
                                      _assign_level(rg_args.towns.population[i]), i)]
            /\ accessibility_matrix' =
                   [i \in RgIdx |-> [j \in RgIdx |->
                       rg_args.accessibility_matrix.values[i + 1][j + 1]]]
            /\ region' = << rg_args.region.geometry >>
            /\ rg_state' = "constructed"
       ELSE /\ UNCHANGED region_vars
            /\ rg_state' = "rejected"
    /\ UNCHANGED <<lf_vars, frame_vars, agg_vars, rg_args, pv_vars>>

(***************************************************************************)
(* PopFrame.build_network_frame.                                           *)
(***************************************************************************)
\* G.has_edge(u, v)
HasEdge(g, u, v) == \E e \in g.edges : e.ends = {u, v}

\* G.add_edge(u, v, level=level): an undirected edge; adding an edge that
\* exists replaces its attributes.
AddEdge(g, u, v, level) ==
    [g EXCEPT !.edges = { e \in @ : e.ends # {u, v} }
                        \cup { [ends |-> {u, v}, level |-> level] }]

\* PopFrame._initialize_graph: one node per row index, with pos and level.
_initialize_graph(t) ==
    [nodes |-> { [idx |-> i, pos |-> t[i].geometry, level |-> t[i].level] :
                 i \in DOMAIN t },
     edges |-> {}]

NodeIds(g) == { n.idx : n \in g.nodes }

\* towns[towns['level'] == level].index
LevelIdxs(t, level) == { i \in DOMAIN t : t[i].level = level }

\* towns[towns['level'].isin(to_levels)].index, to_levels = levels[k+1:]
DenserIdxs(t, k) ==
    { i \in DOMAIN t : \E m \in (k + 1)..Len(levels) : t[i].level = levels[m] }

\* distances.idxmin(): the first label, in index order, of the least value.
IdxMin(row, cands) ==
    CHOOSE n \in cands : \A m \in cands :
        row[n] < row[m] \/ (row[n] = row[m] /\ n <= m)

\* The square of _euclidean_distance (the square root keeps the order).
EuclidSq(p, q) == (p[1] - q[1]) * (p[1] - q[1]) + (p[2] - q[2]) * (p[2] - q[2])

\* min(to_towns, key=euclidean distance from idx): the first of the nearest.
EuclidNearest(t, idx, cands) ==
    CHOOSE n \in cands : \A m \in cands :
        \/ EuclidSq(t[idx].geometry, t[n].geometry) < EuclidSq(t[idx].geometry, t[m].geometry)
        \/ /\ EuclidSq(t[idx].geometry, t[n].geometry) = EuclidSq(t[idx].geometry, t[m].geometry)
           /\ n <= m

\* "if nearest_idx": the truth value of a row label; 0 is false.
TruthyAlways(idx) == TRUE
Truthy(idx) == idx # 0

RECURSIVE TravelTimeStep(_, _, _, _, _)
\* The first loop of _connect_levels over from_towns (a sequence): the graph
\* and the set unconnected_from_towns after it.
TravelTimeStep(t, st, from, to_towns, from_level) ==
    IF from = <<>> THEN st
    ELSE LET idx == Head(from)
             nearest_idx == IdxMin(accessibility_matrix[idx], to_towns)
             hit == Truthy(nearest_idx) /\ ~HasEdge(st.g, idx, nearest_idx)
             next == IF hit
                     THEN [g |-> AddEdge(st.g, idx, nearest_idx, from_level),
                           unconnected |-> st.unconnected \ {idx}]
                     ELSE st
         IN TravelTimeStep(t, next, Tail(from), to_towns, from_level)

EuclidStepSkipped(t, g, unconnected, to_towns, from_level) == g
RECURSIVE EuclidStep(_, _, _, _, _)
\* The second loop of _connect_levels: every node left unconnected gets an
\* edge to the denser settlement nearest in the plane.
EuclidStep(t, g, unconnected, to_towns, from_level) ==
    IF unconnected = {} THEN g
    ELSE LET idx == Min(unconnected)
         IN EuclidStep(t, AddEdge(g, idx, EuclidNearest(t, idx, to_towns), from_level),
                       unconnected \ {idx}, to_towns, from_level)

\* PopFrame._connect_levels(towns, G, levels[k], levels[k+1:])
_connect_levels(t, g, k) ==
    LET from_towns == LevelIdxs(t, levels[k])
        to_towns   == DenserIdxs(t, k)
    IN IF to_towns = {} THEN g
       ELSE LET st == TravelTimeStep(t, [g |-> g, unconnected |-> from_towns],
                                     SortedSeq(from_towns), to_towns, levels[k])
            IN EuclidStep(t, st.g, st.unconnected, to_towns, levels[k])

RECURSIVE ConnectLevelsFrom(_, _, _)
\* for i, level in enumerate(levels[:-1]): self._connect_levels(...)
ConnectLevelsFrom(t, g, k) ==
    IF k >= Len(levels) THEN g
    ELSE ConnectLevelsFrom(t, _connect_levels(t, g, k), k + 1)

\* H's weight of the edge {a, b}: H.add_edge(idx1, idx2, weight=matrix.at[idx1,
\* idx2]) runs for both orders of the pair and the later call, the one with
\* the later row first, overwrites the earlier.
HWeight(a, b) ==
    accessibility_matrix[IF a > b THEN a ELSE b][IF a > b THEN b ELSE a]

\* H.edges of the complete graph, as <<u, v>> with u before v.
HEdges(idxs) == { <<a, b>> \in idxs \X idxs : a < b }

\* The position of an edge in sorted(H.edges, key=weight): by weight, ties in
\* the order of H.edges (by first node, then second).
EdgeBeforeDescending(e, f) ==
    \/ HWeight(e[1], e[2]) > HWeight(f[1], f[2])
    \/ /\ HWeight(e[1], e[2]) = HWeight(f[1], f[2])
       /\ (e[1] < f[1] \/ (e[1] = f[1] /\ e[2] <= f[2]))
EdgeBefore(e, f) ==
    \/ HWeight(e[1], e[2]) < HWeight(f[1], f[2])
    \/ /\ HWeight(e[1], e[2]) = HWeight(f[1], f[2])
       /\ (e[1] < f[1] \/ (e[1] = f[1] /\ e[2] <= f[2]))

RECURSIVE SortEdges(_)
SortEdges(E) ==
    IF E = {} THEN <<>>
    ELSE LET e == CHOOSE x \in E : \A y \in E : EdgeBefore(x, y)
         IN <<e>> \o SortEdges(E \ {e})

RECURSIVE Kruskal(_, _, _)
\* Kruskal's loop: comp maps a node to its subtree's representative; an
\* edge joining two subtrees is taken and the subtrees are merged.
Kruskal(edges, comp, tree) ==
    IF edges = <<>> THEN tree
    ELSE LET e == Head(edges)
         IN IF comp[e[1]] # comp[e[2]]
            THEN Kruskal(Tail(edges),
                         [n \in DOMAIN comp |->
                             IF comp[n] = comp[e[2]] THEN comp[e[1]] ELSE comp[n]],
                         tree \cup {e})
            ELSE Kruskal(Tail(edges), comp, tree)

\* nx.minimum_spanning_tree(H) for the complete graph H on idxs.
minimum_spanning_tree(idxs) ==
    Kruskal(SortEdges(HEdges(idxs)), [n \in idxs |-> n], {})

RECURSIVE AddEdges(_, _, _)
AddEdges(g, E, level) ==
    IF E = {} THEN g
    ELSE LET e == CHOOSE x \in E : TRUE
         IN AddEdges(AddEdge(g, e[1], e[2], level), E \ {e}, level)

\* _connect_same_level adding every edge of H, not the spanning tree's.
_connect_same_levelClique(t, g, level) ==
    LET level_idxs == LevelIdxs(t, level)
    IN IF Cardinality(level_idxs) > 1
       THEN AddEdges(g, HEdges(level_idxs), level)
       ELSE g

\* PopFrame._connect_same_level
_connect_same_level(t, g, level) ==
    LET level_idxs == LevelIdxs(t, level)
    IN IF Cardinality(level_idxs) > 1
       THEN AddEdges(g, minimum_spanning_tree(level_idxs), level)
       ELSE g

\* max(towns['level'], key=levels.index) raises ValueError for a level that
\* is not in the list.
LevelsKnown(t) == \A i \in DOMAIN t : t[i].level \in LevelSet

highest_level(t) ==
    levels[Max({ LevelIndex(t[i].level) : i \in DOMAIN t })]

\* build_network_frame, line 79
InitializeGraph ==
    /\ pc_frame = "start"
    /\ G' = _initialize_graph(towns)
    /\ pc_frame' = "levels"
    /\ UNCHANGED <<lf_vars, rg_vars, pv_vars, region_vars, agg_vars>>

\* build_network_frame, lines 94-97
ConnectLevels ==
    /\ pc_frame = "levels"
    /\ G' = ConnectLevelsFrom(towns, G, 1)
    /\ pc_frame' = "highest"
    /\ UNCHANGED <<lf_vars, rg_vars, pv_vars, region_vars, agg_vars>>

\* build_network_frame, lines 99-102
ConnectSameLevel ==
    /\ pc_frame = "highest"
    /\ LevelsKnown(towns)
    /\ G' = _connect_same_level(towns, G, highest_level(towns))
    /\ pc_frame' = "done"
    /\ UNCHANGED <<lf_vars, rg_vars, pv_vars, region_vars, agg_vars>>

\* build_network_frame, line 99: ValueError, no graph is returned
HighestLevelError ==
    /\ pc_frame = "highest"
    /\ ~LevelsKnown(towns)
    /\ pc_frame' = "error"
    /\ UNCHANGED <<lf_vars, rg_vars, pv_vars, region_vars, agg_vars, G>>

(***************************************************************************)
(* Plane geometry. The plane is cut into square cells; a geometry is the   *)
(* set of closed cells it covers and a settlement's point is the centre of *)
(* its cell <<x, y>>.                                                      *)
(***************************************************************************)
RADIUS == 500

CellSize == CellMinutes * RADIUS

Abs(n) == IF n < 0 THEN 0 - n ELSE n

\* Two closed cells share a point: the same cell, or neighbours by an edge or
\* a corner.
Touch(a, b) == Abs(a[1] - b[1]) <= 1 /\ Abs(a[2] - b[2]) <= 1

\* The four cells that share an edge with c.
EdgeNeighbours(c) ==
    { <<c[1] - 1, c[2]>>, <<c[1] + 1, c[2]>>, <<c[1], c[2] - 1>>, <<c[1], c[2] + 1>> }

\* point.buffer(distance): empty for distance 0, else the cells within
\* distance of the point's cell (whole cells; at least the point's own).
Buffer(pt, distance) ==
    IF distance <= 0 THEN {}
    ELSE LET k == distance \div CellSize
         IN ((pt[1] - k)..(pt[1] + k)) \X ((pt[2] - k)..(pt[2] + k))

\* a.intersects(b) for two geometries: the closed sets share a point.
Intersects(a, b) == \E c \in a : \E d \in b : Touch(c, d)

\* point.intersects(geometry)
PointIntersects(pt, geometry) == pt \in geometry

\* a.intersection(b) restricted to polygons (gpd.overlay keeps the geometry
\* type): the cells covered by both.
Intersection(a, b) == a \cap b

RECURSIVE Grow(_, _, _)
\* The cells of S joined to part through edges, frontier being the cells of
\* part added last.
Grow(S, part, frontier) ==
    LET new == ((UNION { EdgeNeighbours(c) : c \in frontier }) \cap S) \ part
    IN IF new = {} THEN part ELSE Grow(S, part \cup new, new)

\* The first cell of S, by x then y.
MinCell(S) ==
    CHOOSE c \in S : \A d \in S : c[1] < d[1] \/ (c[1] = d[1] /\ c[2] <= d[2])

RECURSIVE Geoms(_)
\* geom.geoms: the polygons of a geometry, its parts joined through edges.
Geoms(S) ==
    IF S = {} THEN <<>>
    ELSE LET part == Grow(S, {MinCell(S)}, {MinCell(S)})
         IN <<part>> \o Geoms(S \ part)

\* isinstance(geom, MultiPolygon)
IsMultiPolygon(geom) == Len(Geoms(geom)) > 1

\* max(geom.geoms, key=lambda g: g.area): the first polygon of largest area.
LargestGeom(geom) ==
    LET gs == Geoms(geom)
        k  == CHOOSE n \in 1..Len(gs) : \A m \in 1..Len(gs) :
                  \/ Cardinality(gs[n]) > Cardinality(gs[m])
                  \/ (Cardinality(gs[n]) = Cardinality(gs[m]) /\ n <= m)
    IN gs[k]

\* Polygon(geom.exterior): the polygon bounded by the outer ring, holes
\* filled.
Exterior(geom) ==
    IF geom = {} THEN {}
    ELSE LET xs == { c[1] : c \in geom }
             ys == { c[2] : c \in geom }
             box == ((Min(xs) - 1)..(Max(xs) + 1)) \X ((Min(ys) - 1)..(Max(ys) + 1))
             corner == <<Min(xs) - 1, Min(ys) - 1>>
             outside == Grow(box \ geom, {corner}, {corner})
         IN box \ outside

\* geom.is_valid: unions, intersections and parts of cell sets are valid.
IsValid(geom) == TRUE

(***************************************************************************)
(* AgglomerationBuilder.                                                   *)
(***************************************************************************)
MIN_POPULATION == 15000

CITY_LEVELS == << "SmallCity", "MediumCity", "BigCity", "LargeCity",
                  "LargestCity", "SuperLargeCity" >>

BaseTime == 80
TimeStep == 10

\* reversed(CITY_LEVELS)[level_index], level_index from 0
ReversedCityLevel(level_index) == CITY_LEVELS[Len(CITY_LEVELS) - level_index]

\* max_time = 80 - 10 * level_index
MaxTime(level_index) == BaseTime - TimeStep * level_index

\* The row of the table whose id column is id.
TownById(t, id) == t[CHOOSE i \in DOMAIN t : t[i].id = id]

\* distances_from_start[distances_from_start <= max_time].index
WithinTimeStrict(distances, max_time) ==
    { n \in DOMAIN distances : distances[n] < max_time }
WithinTime(distances, max_time) ==
    { n \in DOMAIN distances : distances[n] <= max_time }

\* accessibility_matrix.loc[start_node]
DistancesFrom(start_node) == accessibility_matrix[start_node]

\* _get_agglomeration_around_node without the early return of lines 83-84.
_get_agglomeration_around_nodeAlways(t, start_node, max_time) ==
    LET distances_from_start == DistancesFrom(start_node)
        within_time_nodes == WithinTime(distances_from_start, max_time)
    IN [found |-> TRUE,
        geometry |-> UNION { Buffer(TownById(t, n).geometry,
                                    (max_time - distances_from_start[n]) * RADIUS) :
                             n \in within_time_nodes },
        nodes_in_agglomeration |-> within_time_nodes]

\* AgglomerationBuilder._get_agglomeration_around_node; found = FALSE is the
\* result None.
_get_agglomeration_around_node(t, start_node, max_time) ==
    LET distances_from_start == DistancesFrom(start_node)
        within_time_nodes == WithinTime(distances_from_start, max_time)
    IN IF within_time_nodes = {}
       THEN [found |-> FALSE]
       ELSE [found |-> TRUE,
             geometry |-> UNION { Buffer(TownById(t, n).geometry,
                                         (max_time - distances_from_start[n]) * RADIUS) :
                                  n \in within_time_nodes },
             nodes_in_agglomeration |-> within_time_nodes]

RECURSIVE SortByPopulation(_, _)
\* towns[towns['level'] == level].sort_values(by='population',
\* ascending=False): the row indexes, equal populations in index order.
SortByPopulation(t, idxs) ==
    IF idxs = {} THEN <<>>
    ELSE LET i == CHOOSE n \in idxs : \A m \in idxs :
                      \/ t[n].population > t[m].population
                      \/ (t[n].population = t[m].population /\ n <= m)
         IN <<i>> \o SortByPopulation(t, idxs \ {i})

\* The test that skips a node without the comparison with MIN_POPULATION.
SkipsNodeByRegistry(registry, node, population) ==
    node \in registry

\* The test that skips a node: absorbed before, or below the minimum.
SkipsNode(registry, node, population) ==
    node \in registry \/ population < MIN_POPULATION

\* Every member of a new agglomeration marked, whatever its population.
AbsorbedAll(t, nodes) == nodes

\* The members of a new agglomeration that are marked in IN_AGGLOMERATION.
Absorbed(t, nodes) == { n \in nodes : TownById(t, n).population < MIN_POPULATION }

RECURSIVE BuildNodes(_, _, _, _)
\* The inner loop of _build_agglomeration over the nodes of one level. st is
\* [agglomerations, registry]; a row of agglomerations carries, beside name
\* and geometry, the anchor's id and nodes_in_agglomeration (the table built
\* from the list keeps name and geometry only).
BuildNodes(t, st, nodes, max_time) ==
    IF nodes = <<>> THEN st
    ELSE LET row  == t[Head(nodes)]
             node == row.id
             agglomeration == _get_agglomeration_around_node(t, node, max_time)
             next ==
                IF SkipsNode(st.registry, node, row.population) THEN st
                ELSE IF ~agglomeration.found THEN st
                ELSE [agglomerations |->
                          Append(st.agglomerations,
                                 [name |-> row.name,
                                  geometry |-> agglomeration.geometry,
                                  anchor |-> node,
                                  nodes |-> agglomeration.nodes_in_agglomeration]),
                      registry |->
                          st.registry \cup Absorbed(t, agglomeration.nodes_in_agglomeration)]
         IN BuildNodes(t, next, Tail(nodes), max_time)

RECURSIVE BuildLevels(_, _, _)
\* for level_index, level in enumerate(reversed(CITY_LEVELS))
BuildLevels(t, st, level_index) ==
    IF level_index >= Len(CITY_LEVELS) THEN st
    ELSE BuildLevels(t,
             BuildNodes(t, st,
                        SortByPopulation(t, LevelIdxs(t, ReversedCityLevel(level_index))),
                        MaxTime(level_index)),
             level_index + 1)

\* AgglomerationBuilder._build_agglomeration
_build_agglomeration(t, registry) ==
    BuildLevels(t, [agglomerations |-> <<>>, registry |-> registry], 0)

\* The lambda of _simplify_multipolygons
SimplifyGeom(geom) == IF IsMultiPolygon(geom) THEN LargestGeom(geom) ELSE geom

\* AgglomerationBuilder._simplify_multipolygons
_simplify_multipolygons(gdf) ==
    [k \in DOMAIN gdf |-> [gdf[k] EXCEPT !.geometry = SimplifyGeom(@)]]

\* towns[towns.intersects(geometry)]['population'].sum()
PopulationIn(t, geometry) ==
    SumOver([i \in DOMAIN t |-> t[i].population],
            { i \in DOMAIN t : PointIntersects(t[i].geometry, geometry) })

AgglomerationLevelStrict(population) ==
    IF population < 250000 THEN 1
    ELSE IF population < 500000 THEN 2
    ELSE IF population < 1000000 THEN 3
    ELSE IF population < 5000000 THEN 4
    ELSE 5
\* The population thresholds of the agglomeration level.
AgglomerationLevel(population) ==
    IF population <= 250000 THEN 1
    ELSE IF population <= 500000 THEN 2
    ELSE IF population <= 1000000 THEN 3
    ELSE IF population <= 5000000 THEN 4
    ELSE 5

\* One test of a merge loop: row j joins the group when it is not processed
\* and its geometry intersects the group's. m is [geometry, merged_names,
\* overlapping, processed, hit, passes]; hit is still_intersecting and passes
\* counts the passes of the while loop made so far.
MergeRow(gdf, m, j) ==
    IF j \notin m.processed /\ Intersects(m.geometry, gdf[j].geometry)
    THEN [geometry |-> m.geometry \cup gdf[j].geometry,
          merged_names |-> m.merged_names \cup {gdf[j].name},
          overlapping |-> Append(m.overlapping, j),
          processed |-> m.processed \cup {j},
          hit |-> TRUE,
          passes |-> m.passes]
    ELSE m

RECURSIVE FirstLoop(_, _, _, _)
\* The first inner loop (lines 124-130): every row j # i.
FirstLoop(gdf, m, i, j) ==
    IF j > Len(gdf) THEN m
    ELSE FirstLoop(gdf, IF j # i THEN MergeRow(gdf, m, j) ELSE m, i, j + 1)

RECURSIVE SecondLoopPass(_, _, _)
\* One pass of the for loop inside "while still_intersecting" (lines
\* 136-143): every row j, row i among them.
SecondLoopPass(gdf, m, j) ==
    IF j > Len(gdf) THEN m
    ELSE SecondLoopPass(gdf, MergeRow(gdf, m, j), j + 1)

SecondLoopNone(gdf, m) == m
RECURSIVE SecondLoopFixed(_, _)
\* The while loop making Len(gdf) + 2 passes whatever they find.
SecondLoopFixed(gdf, m) ==
    LET pass == SecondLoopPass(gdf, [m EXCEPT !.hit = FALSE, !.passes = @ + 1], 1)
    IN IF pass.passes < Len(gdf) + 2 THEN SecondLoopFixed(gdf, pass) ELSE pass

RECURSIVE SecondLoop(_, _)
\* while still_intersecting
SecondLoop(gdf, m) ==
    LET pass == SecondLoopPass(gdf, [m EXCEPT !.hit = FALSE, !.passes = @ + 1], 1)
    IN IF pass.hit THEN SecondLoop(gdf, pass) ELSE pass

\* The type of a merged agglomeration.
AgglomerationType(overlapping_agglomerations) ==
    IF Len(overlapping_agglomerations) > 1 THEN "Polycentric" ELSE "Monocentric"

\* The body of the main loop adding row i alone to the processed set.
MergeGroupForgetful(gdf, t, i, processed) ==
    LET start == [geometry |-> gdf[i].geometry,
                  merged_names |-> {gdf[i].name},
                  overlapping |-> <<i>>,
                  processed |-> processed,
                  hit |-> FALSE,
                  passes |-> 0]
        m == SecondLoop(gdf, FirstLoop(gdf, start, i, 1))
        population_from_towns == PopulationIn(t, m.geometry)
    IN [row |-> [geometry |-> m.geometry,
                 type |-> AgglomerationType(m.overlapping),
                 core_cities |-> m.merged_names,
                 population |-> population_from_towns,
                 agglomeration_level |-> AgglomerationLevel(population_from_towns),
                 overlapping |-> m.overlapping,
                 passes |-> m.passes],
        processed |-> processed \cup {i}]

\* The body of the main loop for row i (lines 119-173): the merged row and
\* the processed set. overlapping is overlapping_agglomerations as row
\* numbers and passes the number of passes of the while loop (the table
\* returned keeps neither).
MergeGroup(gdf, t, i, processed) ==
    LET start == [geometry |-> gdf[i].geometry,
                  merged_names |-> {gdf[i].name},
                  overlapping |-> <<i>>,
                  processed |-> processed,
                  hit |-> FALSE,
                  passes |-> 0]
        first == FirstLoop(gdf, start, i, 1)
        m == SecondLoop(gdf, first)
        \* lines 146-147 leave a valid geometry as it is
        geometry == m.geometry
        population_from_towns == PopulationIn(t, geometry)
    IN [row |-> [geometry |-> geometry,
                 type |-> AgglomerationType(m.overlapping),
                 core_cities |-> m.merged_names,
                 population |-> population_from_towns,
                 agglomeration_level |-> AgglomerationLevel(population_from_towns),
                 overlapping |-> m.overlapping,
                 passes |-> m.passes],
        processed |-> m.processed \cup {i}]

RECURSIVE MergeFromAll(_, _, _, _, _)
\* The main loop without the test of line 116.
MergeFromAll(gdf, t, i, processed, merged_geometries) ==
    IF i > Len(gdf) THEN merged_geometries
    ELSE LET g == MergeGroup(gdf, t, i, processed)
         IN MergeFromAll(gdf, t, i + 1, g.processed, Append(merged_geometries, g.row))

RECURSIVE MergeFrom(_, _, _, _, _)
\* The main loop of _merge_intersecting_agglomerations from row i on.
MergeFrom(gdf, t, i, processed, merged_geometries) ==
    IF i > Len(gdf) THEN merged_geometries
    ELSE IF i \in processed THEN MergeFrom(gdf, t, i + 1, processed, merged_geometries)
    ELSE LET g == MergeGroup(gdf, t, i, processed)
         IN MergeFrom(gdf, t, i + 1, g.processed, Append(merged_geometries, g.row))

\* AgglomerationBuilder._merge_intersecting_agglomerations
_merge_intersecting_agglomerations(gdf, t) == MergeFrom(gdf, t, 1, {}, <<>>)

RECURSIVE OverlayFrom(_, _, _, _)
\* gpd.overlay(gdf, boundary, how='intersection'): one row for every row of
\* gdf and row of boundary whose geometries overlap, with the overlap as
\* geometry. merged is the number of the row of gdf (not a column).
OverlayFrom(gdf, boundary, k, q) ==
    IF k > Len(gdf) THEN <<>>
    ELSE IF q > Len(boundary) THEN OverlayFrom(gdf, boundary, k + 1, 1)
    ELSE LET part == Intersection(gdf[k].geometry, boundary[q])
         IN (IF part = {} THEN <<>>
             ELSE << [geometry |-> part,
                      type |-> gdf[k].type,
                      core_cities |-> gdf[k].core_cities,
                      population |-> gdf[k].population,
                      agglomeration_level |-> gdf[k].agglomeration_level,
                      merged |-> k] >>)
            \o OverlayFrom(gdf, boundary, k, q + 1)

Overlay(gdf, boundary) == OverlayFrom(gdf, boundary, 1, 1)

\* The lambda of step 5: Polygon(geom.exterior) if geom.is_valid else geom
CorrectGeom(geom) == IF IsValid(geom) THEN Exterior(geom) ELSE geom

\* get_agglomerations, line 260
BuildAgglomeration ==
    /\ pc_agg = "start"
    /\ LET built == _build_agglomeration(towns, IN_AGGLOMERATION)
       IN /\ agglomeration_gdf' = built.agglomerations
          /\ IN_AGGLOMERATION' = built.registry
    /\ pc_agg' = "built"
    /\ UNCHANGED <<lf_vars, rg_vars, pv_vars, region_vars, frame_vars, calls, seed_gdf, merged_gdf>>

\* get_agglomerations, line 262
SimplifySeeds ==
    /\ pc_agg = "built"
    /\ agglomeration_gdf' = _simplify_multipolygons(agglomeration_gdf)
    /\ seed_gdf' = agglomeration_gdf'
    /\ pc_agg' = "simplified"
    /\ UNCHANGED <<lf_vars, rg_vars, pv_vars, region_vars, frame_vars, calls, IN_AGGLOMERATION, merged_gdf>>

\* get_agglomerations, line 264
MergeIntersecting ==
    /\ pc_agg = "simplified"
    /\ agglomeration_gdf # <<>>
    /\ agglomeration_gdf' = _merge_intersecting_agglomerations(agglomeration_gdf, towns)
    /\ merged_gdf' = agglomeration_gdf'
    /\ pc_agg' = "merged"
    /\ UNCHANGED <<lf_vars, rg_vars, pv_vars, region_vars, frame_vars, calls, IN_AGGLOMERATION, seed_gdf>>

\* get_agglomerations, lines 264-267 with no agglomeration built: the merge
\* returns a table without a geometry column, which the overlay rejects.
MergeNothing ==
    /\ pc_agg = "simplified"
    /\ agglomeration_gdf = <<>>
    /\ pc_agg' = "error"
    /\ UNCHANGED <<lf_vars, rg_vars, pv_vars, region_vars, frame_vars, calls, IN_AGGLOMERATION,
                   agglomeration_gdf, seed_gdf, merged_gdf>>

\* get_agglomerations, line 267
OverlayRegion ==
    /\ pc_agg = "merged"
    /\ agglomeration_gdf' = Overlay(agglomeration_gdf, region)
    /\ pc_agg' = "overlaid"
    /\ UNCHANGED <<lf_vars, rg_vars, pv_vars, region_vars, frame_vars, calls, IN_AGGLOMERATION, seed_gdf, merged_gdf>>

\* get_agglomerations, line 270
SimplifyOverlaid ==
    /\ pc_agg = "overlaid"
    /\ agglomeration_gdf' = _simplify_multipolygons(agglomeration_gdf)
    /\ pc_agg' = "reduced"
    /\ UNCHANGED <<lf_vars, rg_vars, pv_vars, region_vars, frame_vars, calls, IN_AGGLOMERATION, seed_gdf, merged_gdf>>

\* get_agglomerations, lines 273-277
FinalCorrection ==
    /\ pc_agg = "reduced"
    /\ agglomeration_gdf' =
           [k \in DOMAIN agglomeration_gdf |->
               [agglomeration_gdf[k] EXCEPT !.geometry = CorrectGeom(@)]]
    /\ pc_agg' = "done"
    /\ UNCHANGED <<lf_vars, rg_vars, pv_vars, region_vars, frame_vars, calls, IN_AGGLOMERATION, seed_gdf, merged_gdf>>

\* get_agglomerations as one step, from the table of settlements, the
\* boundary and the registry as the call finds it: whether it raised, the
\* table it returned and the registry it leaves.
get_agglomerations(t, boundary, registry) ==
    LET built == _build_agglomeration(t, registry)
        seeds == _simplify_multipolygons(built.agglomerations)
        reduced == _simplify_multipolygons(
                       Overlay(_merge_intersecting_agglomerations(seeds, t), boundary))
    IN [raised |-> seeds = <<>>,
        registry |-> built.registry,
        gdf |-> IF seeds = <<>> THEN <<>>
                ELSE [k \in DOMAIN reduced |->
                         [reduced[k] EXCEPT !.geometry = CorrectGeom(@)]]]

\* One agglomeration of the inner loop of evaluate_city_agglomeration_status
\* (lines 221-230) with the point test left out.
EvalRowByName(town, agg, st) ==
    IF town.name \in agg.core_cities
    THEN [in_agglomeration |-> TRUE, is_core_city |-> TRUE,
          current_agglomeration_level |-> agg.agglomeration_level]
    ELSE st

\* One agglomeration of the inner loop of evaluate_city_agglomeration_status
\* (lines 221-230); the loop breaks once is_core_city is set.
EvalRow(town, agg, st) ==
    IF PointIntersects(town.geometry, agg.geometry)
    THEN [in_agglomeration |-> TRUE,
          is_core_city |-> town.name \in agg.core_cities,
          current_agglomeration_level |-> agg.agglomeration_level]
    ELSE st

RECURSIVE EvalLoop(_, _, _, _)
\* for agg_idx, agg in agglomeration_gdf.iterrows(), from row k on
EvalLoop(town, gdf, k, st) ==
    IF k > Len(gdf) \/ st.is_core_city THEN st
    ELSE EvalLoop(town, gdf, k + 1, EvalRow(town, gdf[k], st))

\* The two values evaluate_city_agglomeration_status appends for a town
\* (lines 216-240). "center", "outside" and "member" stand for the source's
\* 'Центр агломерации', 'Вне агломерации' and 'В агломерации'.
TownStatus(town, gdf) ==
    LET st == EvalLoop(town, gdf, 1,
                       [in_agglomeration |-> FALSE, is_core_city |-> FALSE,
                        current_agglomeration_level |-> 0])
    IN IF st.is_core_city
       THEN [agglomeration_status |-> "center",
             agglomeration_level |-> st.current_agglomeration_level]
       ELSE IF ~st.in_agglomeration
       THEN [agglomeration_status |-> "outside", agglomeration_level |-> 0]
       ELSE [agglomeration_status |-> "member",
             agglomeration_level |-> st.current_agglomeration_level]

\* evaluate_city_agglomeration_status writing the status into the column
\* 'level' as well.
evaluate_city_agglomeration_statusIntoLevel(t, gdf) ==
    [i \in DOMAIN t |->
        [id |-> t[i].id, name |-> t[i].name, population |-> t[i].population,
         level |-> TownStatus(t[i], gdf).agglomeration_status, geometry |-> t[i].geometry,
         agglomeration_status |-> TownStatus(t[i], gdf).agglomeration_status,
         agglomeration_level |-> TownStatus(t[i], gdf).agglomeration_level]]

\* AgglomerationBuilder.evaluate_city_agglomeration_status(towns,
\* agglomeration_gdf): the table given, with the two columns set (lines
\* 242-243).
evaluate_city_agglomeration_status(t, gdf) ==
    [i \in DOMAIN t |->
        [id |-> t[i].id, name |-> t[i].name, population |-> t[i].population,
         level |-> t[i].level, geometry |-> t[i].geometry,
         agglomeration_status |-> TownStatus(t[i], gdf).agglomeration_status,
         agglomeration_level |-> TownStatus(t[i], gdf).agglomeration_level]]

\* evaluate_city_agglomeration_status called with the settlement table and
\* the table get_agglomerations returned.
EvaluateStatus ==
    /\ pc_agg = "done"
    /\ towns' = evaluate_city_agglomeration_status(towns, agglomeration_gdf)
    /\ pc_agg' = "evaluated"
    /\ UNCHANGED <<lf_vars, rg_vars, pv_vars, accessibility_matrix, region, frame_vars, calls,
                   IN_AGGLOMERATION, agglomeration_gdf, seed_gdf, merged_gdf>>

(***************************************************************************)
(* The regions get_agglomerations is run on.                               *)
(***************************************************************************)
\* towns is the table get_agglomerations obtains from the region at line 255,
\* with the levels LevelFiller gives the populations.
\* The populations of the settlements: a small city below MIN_POPULATION,
\* one above it, and a super-large city.
AggPopulations == {10000, 20000, 3500000}

\* Travel times (minutes) between two settlements: near, and out of reach of
\* every level.
NearTime == 20
FarTime == 90

\* Extra minutes from a later row to an earlier one in the "skew" variant;
\* NearTime + SkewTime is the maximum time of a small city.
SkewTime == 10

\* What is unusual about the input: nothing; a matrix that is not symmetric;
\* a first settlement out of reach of itself; a boundary that leaves out the
\* column x = 1.
AggVariants == {"plain", "skew", "diag", "gap"}

\* The cells the boundary polygon lies in.
World == ((0 - 3)..(MaxX + 3)) \X ((0 - 3)..3)

\* The boundary table: one row, a polygon that covers the box, or a
\* multipolygon that leaves out the column x = 1.
RegionOf(variant) ==
    IF variant = "gap" THEN << { c \in World : c[1] # 1 } >> ELSE << World >>

\* Settlements in a row, at different places; remote ones are FarTime from
\* every other.
LineInit ==
    \E pop \in [TownIdx -> AggPopulations], x \in [TownIdx -> 0..MaxX],
       remote \in SUBSET TownIdx, variant \in AggVariants :
        /\ \A i, j \in TownIdx : i # j => x[i] # x[j]
        /\ towns = [i \in TownIdx |-> TownRowOf(i, pop[i], _assign_level(pop[i]), x[i])]
        /\ accessibility_matrix =
               MatrixOf([p \in Pairs |-> IF p \cap remote = {} THEN NearTime ELSE FarTime],
                        IF variant = "skew" THEN SkewTime ELSE 0,
                        [i \in TownIdx |-> IF variant = "diag" /\ i = 0 THEN FarTime ELSE 0])
        /\ region = RegionOf(variant)

\* Four settlements around a fifth: north, east, south and west of the
\* origin, RingDistance cells away.
RingPlaces == << <<0, 4>>, <<4, 0>>, <<0, 0 - 4>>, <<0 - 4, 0>> >>
RingIdx == 0..Len(RingPlaces)

\* The cells the boundary polygon of the ring lies in.
RingWorld == ((0 - 7)..7) \X ((0 - 7)..7)

\* The settlements of the ring have one population and the fifth, near the
\* origin, another; every settlement is FarTime from every other.
RingInit ==
    \E ring_population \in AggPopulations, population \in AggPopulations,
       pt \in ((0 - 1)..1) \X ((0 - 1)..1) :
        /\ towns = [i \in RingIdx |->
                       IF i < Len(RingPlaces)
                       THEN [TownRowOf(i, ring_population, _assign_level(ring_population), 0)
                                EXCEPT !.geometry = RingPlaces[i + 1]]
                       ELSE [TownRowOf(i, population, _assign_level(population), 0)
                                EXCEPT !.geometry = pt]]
        /\ accessibility_matrix =
               [i \in RingIdx |-> [j \in RingIdx |-> IF i = j THEN 0 ELSE FarTime]]
        /\ region = << RingWorld >>

\* The populations around which the level of an agglomeration changes.
AggLevelThresholds == {250000, 500000, 1000000, 5000000}

\* The populations of the settlements of a pair: below MIN_POPULATION, or
\* within Delta of a threshold of the agglomeration level.
PairPopulations ==
    {10000} \cup { t + d : t \in AggLevelThresholds, d \in (0 - Delta)..Delta }

\* Two settlements: side by side and NearTime apart, or six cells and FarTime
\* apart.
PairInit ==
    \E pop \in [0..1 -> PairPopulations], together \in BOOLEAN :
        /\ towns = [i \in 0..1 |->
                       TownRowOf(i, pop[i], _assign_level(pop[i]),
                                 IF together THEN i ELSE 6 * i - 3)]
        /\ accessibility_matrix =
               [i \in 0..1 |-> [j \in 0..1 |->
                   IF i = j THEN 0 ELSE IF together THEN NearTime ELSE FarTime]]
        /\ region = << RingWorld >>

AggRegionInit == LineInit \/ RingInit \/ PairInit

\* Two settlements as in PairInit that may bear the same name (Town.name is
\* any string).
NamesInit ==
    \E pop \in [0..1 -> PairPopulations], together \in BOOLEAN, same_name \in BOOLEAN :
        /\ towns = [i \in 0..1 |->
                       [TownRowOf(i, pop[i], _assign_level(pop[i]),
                                  IF together THEN i ELSE 6 * i - 3)
                           EXCEPT !.name = IF same_name THEN 0 ELSE i]]
        /\ accessibility_matrix =
               [i \in 0..1 |-> [j \in 0..1 |->
                   IF i = j THEN 0 ELSE IF together THEN NearTime ELSE FarTime]]
        /\ region = << RingWorld >>

AggInit ==
    /\ AggRegionInit
    /\ IN_AGGLOMERATION = {}
    /\ agglomeration_gdf = <<>>
    /\ pc_agg = "start"
    /\ seed_gdf = <<>>
    /\ merged_gdf = <<>>
    /\ calls = 1

(***************************************************************************)
(* ProvisionModel.get_provision                                           *)
(* (masterplan_tools/method/provision/provision_model.py).                *)
(*                                                                         *)
(* Demand and capacity are real numbers in the source (the demand of a    *)
(* block is population / 1000 * standard).  Here they are counted in       *)
(* parts of a unit, Scale parts to the unit, and the populations are       *)
(* chosen so that the demand is a whole number of parts.  graph.nodes is   *)
(* iterated in the order 0, 1, 2; neighbours at the same weight are taken  *)
(* in the order of their numbers.                                          *)
(***************************************************************************)
\* Parts of a unit of demand or capacity.
Scale == 5
\* standard_dict and services_accessibility_dict of "schools", the default
\* service_name.
standard == 120
accessibility == 15
\* load = 1: the amount of one allocation.
load == Scale
\* The blocks of the services graph.
PvNodes == {0, 1, 2}
\* Populations of the living blocks (demand 0.6 and 1.8 units) and
\* capacities of the service blocks (0, 1 and 2.4 units).
PvPopulations == {5, 15}
PvCapacities == {0, Scale, 2 * Scale + 2}
\* Weights of the edges, in minutes, on either side of accessibility.
PvWeights == {10, 20}
PvPairs == { pr \in PvNodes \X PvNodes : pr[1] < pr[2] }
PvPair(n, m) == IF n < m THEN <<n, m>> ELSE <<m, n>>

\* The attributes of a block in the graph get_provision is given: living
\* or a service or both, nothing provided yet.
PvBlocks ==
    { [is_living |-> l, is_service |-> sv, population |-> p, capacity |-> c,
       demand |-> 0, count |-> 0, population_unprov |-> 0, small_prov |-> 0,
       population_prov |-> 0, provision |-> 0] :
         <<l, sv, p, c>> \in
           { q \in BOOLEAN \X {0, 1} \X (PvPopulations \cup {0}) \X PvCapacities :
               /\ q[1] \/ q[2] = 1
               /\ q[1] <=> q[3] > 0
               /\ q[2] = 0 => q[4] = 0 } }

PvInit ==
    /\ \E nd \in [PvNodes -> PvBlocks], es \in SUBSET PvPairs :
          \E e \in [es -> PvWeights] :
              graph = [nodes |-> nd,
                       weight |-> [n \in PvNodes |->
                                     [m \in { x \in PvNodes \ {n} : PvPair(n, x) \in es } |->
                                         e[PvPair(n, m)]]]]
    /\ total_load = 0 /\ total_capacity = 0
    /\ prev_total_load = 0 /\ prev_total_capacity = 0
    /\ pc_pv = "start" /\ pv_pos = 0

RECURSIVE PvSum(_, _)
PvSum(f, S) ==
    IF S = {} THEN 0
    ELSE LET n == CHOOSE x \in S : TRUE IN f[n] + PvSum(f, S \ {n})

\* population / 1000 * standard, in parts.
Demand(population) == (population * standard * Scale) \div 1000

\* The first loop: the demand of the living blocks.
SetDemand(nd) ==
    IF nd.is_living
    THEN [nd EXCEPT !.population_unprov = Demand(nd.population),
                    !.demand = Demand(nd.population),
                    !.count = Demand(nd.population),
                    !.small_prov = 0]
    ELSE nd

\* The second loop: the totals.
TotalCapacity(g) ==
    PvSum([n \in DOMAIN g.nodes |->
              IF g.nodes[n].is_service = 1 THEN g.nodes[n].capacity ELSE 0],
          DOMAIN g.nodes)
TotalLoad(g) ==
    PvSum([n \in DOMAIN g.nodes |->
              IF g.nodes[n].is_living /\ g.nodes[n].population > 0
              THEN g.nodes[n].count ELSE 0],
          DOMAIN g.nodes)

\* A block that serves no demand whatever capacity it has left.
CanServeAny(g, m) == g.nodes[m].is_service = 1

\* is_service == 1 and capacity >= 1.
CanServe(g, m) ==
    /\ g.nodes[m].is_service = 1
    /\ g.nodes[m].capacity >= load

neighbors(g, n) == DOMAIN g.weight[n]

\* The order of neighbors_sorted.
NearerThan(g, n, a, b) ==
    \/ g.weight[n][a] < g.weight[n][b]
    \/ g.weight[n][a] = g.weight[n][b] /\ a < b

\* provision = population_prov * 100 / demand; only its comparison with
\* 100 is used, which the whole part of the quotient decides.
Provision(nd) == (nd.population_prov * 100) \div nd.demand

\* A living service block provides for itself.
ServeSelf(g, n) ==
    LET nd == [g.nodes[n] EXCEPT !.capacity = @ - load,
                                 !.population_prov = @ + load,
                                 !.count = @ - load,
                                 !.population_unprov = @ - load]
    IN [g EXCEPT !.nodes[n] = [nd EXCEPT !.provision = Provision(nd)]]

\* A neighbour within the accessibility provides.
ServeNear(g, n, m) ==
    LET nd == [g.nodes[n] EXCEPT !.count = @ - load,
                                 !.population_prov = @ + load,
                                 !.population_unprov = @ - load]
    IN [g EXCEPT !.nodes[n] = [nd EXCEPT !.provision = Provision(nd)],
                 !.nodes[m].capacity = @ - load]

\* A neighbour farther than the accessibility provides.
ServeFar(g, n, m) ==
    [g EXCEPT !.nodes[n].count = @ - load,
              !.nodes[n].small_prov = @ + 1,
              !.nodes[m].capacity = @ - load]

\* The body of the for loop for block n: the graph and the totals after it.
VisitBlock(g, tl, tc, n) ==
    LET same == [graph |-> g, total_load |-> tl, total_capacity |-> tc]
        nd == g.nodes[n]
        serving == { m \in neighbors(g, n) : CanServe(g, m) /\ tc > 0 /\ tl > 0 }
    IN IF ~(nd.is_living /\ nd.count > 0) THEN same
       ELSE IF CanServe(g, n)
       THEN IF nd.provision < 100 /\ tc > 0 /\ tl > 0
            THEN [graph |-> ServeSelf(g, n),
                  total_load |-> tl - load, total_capacity |-> tc - load]
            ELSE same
       ELSE IF serving = {} THEN same
       ELSE LET m == CHOOSE x \in serving :
                        \A y \in serving \ {x} : NearerThan(g, n, x, y)
            IN [graph |-> IF g.weight[n][m] <= accessibility
                          THEN ServeNear(g, n, m) ELSE ServeFar(g, n, m),
                total_load |-> tl - load, total_capacity |-> tc - load]

\* Lines 91-128: the copy of the graph, the demand and the totals.
StartProvision ==
    /\ pc_pv = "start"
    /\ LET g == [graph EXCEPT !.nodes = [n \in DOMAIN @ |-> SetDemand(@[n])]]
       IN /\ graph' = g
          /\ total_load' = TotalLoad(g)
          /\ total_capacity' = TotalCapacity(g)
    /\ pc_pv' = "while"
    /\ UNCHANGED <<prev_total_load, prev_total_capacity, pv_pos>>
    /\ UNCHANGED <<lf_vars, rg_vars, region_vars, frame_vars, agg_vars>>

\* Lines 131-133: the test of the while loop holds, a pass begins.
EnterPass ==
    /\ pc_pv = "while"
    /\ total_load > 0 \/ total_capacity > 0
    /\ prev_total_load' = total_load
    /\ prev_total_capacity' = total_capacity
    /\ pv_pos' = 0
    /\ pc_pv' = "for"
    /\ UNCHANGED <<graph, total_load, total_capacity>>
    /\ UNCHANGED <<lf_vars, rg_vars, region_vars, frame_vars, agg_vars>>

\* Line 131: the test of the while loop fails; line 212.
LeaveLoop ==
    /\ pc_pv = "while"
    /\ ~(total_load > 0 \/ total_capacity > 0)
    /\ pc_pv' = "done"
    /\ UNCHANGED <<graph, total_load, total_capacity, prev_total_load,
                   prev_total_capacity, pv_pos>>
    /\ UNCHANGED <<lf_vars, rg_vars, region_vars, frame_vars, agg_vars>>

\* Lines 135-185: the for loop takes the next block.
VisitNode ==
    /\ pc_pv = "for"
    /\ pv_pos \in DOMAIN graph.nodes
    /\ LET r == VisitBlock(graph, total_load, total_capacity, pv_pos)
       IN /\ graph' = r.graph
          /\ total_load' = r.total_load
          /\ total_capacity' = r.total_capacity
    /\ pv_pos' = pv_pos + 1
    /\ UNCHANGED <<prev_total_load, prev_total_capacity, pc_pv>>
    /\ UNCHANGED <<lf_vars, rg_vars, region_vars, frame_vars, agg_vars>>

\* Lines 205-210: the end of a pass; the loop is left when a total has not
\* moved.
EndPass ==
    /\ pc_pv = "for"
    /\ pv_pos \notin DOMAIN graph.nodes
    /\ pc_pv' = IF prev_total_load = total_load \/ prev_total_capacity = total_capacity
                THEN "done" ELSE "while"
    /\ UNCHANGED <<graph, total_load, total_capacity, prev_total_load,
                   prev_total_capacity, pv_pos>>
    /\ UNCHANGED <<lf_vars, rg_vars, region_vars, frame_vars, agg_vars>>

(***************************************************************************)
(* Specifications.                                                         *)
(***************************************************************************)
\* The parts of the state an operation does not use.
LfIdle == lf_gdf = <<>> /\ lf_level = <<>> /\ lf_state = "idle"
RegionIdle == towns = <<>> /\ accessibility_matrix = <<>> /\ region = NoRegion
FrameIdle == G = [nodes |-> {}, edges |-> {}] /\ pc_frame = "idle"
AggIdle ==
    /\ IN_AGGLOMERATION = {} /\ agglomeration_gdf = <<>> /\ pc_agg = "idle"
    /\ seed_gdf = <<>> /\ merged_gdf = <<>> /\ calls = 0
RgIdle == rg_args = <<>> /\ rg_state = "idle"
PvIdle ==
    /\ graph = [nodes |-> <<>>, weight |-> <<>>]
    /\ total_load = 0 /\ total_capacity = 0
    /\ prev_total_load = 0 /\ prev_total_capacity = 0
    /\ pc_pv = "idle" /\ pv_pos = 0

\* get_provision runs to its end: no step of it waits for anything.
InitProvision == LfIdle /\ RegionIdle /\ FrameIdle /\ AggIdle /\ RgIdle /\ PvInit
NextProvision ==
    \/ StartProvision
    \/ EnterPass
    \/ VisitNode
    \/ EndPass
    \/ LeaveLoop
SpecProvision == InitProvision /\ [][NextProvision]_vars /\ WF_vars(NextProvision)

InitRegion == LfIdle /\ RegionIdle /\ FrameIdle /\ AggIdle /\ RgInit /\ PvIdle
NextRegion == Region__init__
SpecRegion == InitRegion /\ [][NextRegion]_vars

\* A later call of get_agglomerations in the same process, after the
\* population of one settlement was updated: the module-level registry is
\* the one the earlier call left.
CallAgain ==
    /\ pc_agg \in {"done", "error"}
    /\ calls < MaxCalls
    /\ \E i \in DOMAIN towns, population \in AggPopulations :
          towns' = [towns EXCEPT ![i].population = population,
                                 ![i].level = _assign_level(population)]
    /\ agglomeration_gdf' = <<>>
    /\ seed_gdf' = <<>>
    /\ merged_gdf' = <<>>
    /\ pc_agg' = "start"
    /\ calls' = calls + 1
    /\ UNCHANGED <<lf_vars, rg_vars, pv_vars, accessibility_matrix, region, frame_vars,
                   IN_AGGLOMERATION>>

InitCalls ==
    /\ LfIdle /\ FrameIdle /\ RgIdle /\ PvIdle
    /\ PairInit
    /\ IN_AGGLOMERATION = {} /\ agglomeration_gdf = <<>> /\ pc_agg = "start"
    /\ seed_gdf = <<>> /\ merged_gdf = <<>> /\ calls = 1
NextCalls ==
    \/ BuildAgglomeration
    \/ SimplifySeeds
    \/ MergeIntersecting
    \/ MergeNothing
    \/ OverlayRegion
    \/ SimplifyOverlaid
    \/ FinalCorrection
    \/ CallAgain
SpecCalls == InitCalls /\ [][NextCalls]_vars

InitLevel == LfInit /\ RegionIdle /\ FrameIdle /\ AggIdle /\ RgIdle /\ PvIdle
NextLevel ==
    \/ validate_towns /\ UNCHANGED <<rg_vars, pv_vars, region_vars, frame_vars, agg_vars>>
    \/ fill_levels /\ UNCHANGED <<rg_vars, pv_vars, region_vars, frame_vars, agg_vars>>
SpecLevel == InitLevel /\ [][NextLevel]_vars

InitFrame == LfIdle /\ FrameInit /\ AggIdle /\ RgIdle /\ PvIdle
NextFrame ==
    \/ InitializeGraph
    \/ ConnectLevels
    \/ ConnectSameLevel
    \/ HighestLevelError
SpecFrame == InitFrame /\ [][NextFrame]_vars

\* build_network_frame on a region whose settlements' ids are in any order.
InitNodes == LfIdle /\ NodesInit /\ AggIdle /\ RgIdle /\ PvIdle
SpecNodes == InitNodes /\ [][NextFrame]_vars

InitAgg == LfIdle /\ FrameIdle /\ AggInit /\ RgIdle /\ PvIdle
NextAgg ==
    \/ BuildAgglomeration
    \/ SimplifySeeds
    \/ MergeIntersecting
    \/ MergeNothing
    \/ OverlayRegion
    \/ SimplifyOverlaid
    \/ FinalCorrection
    \/ EvaluateStatus
SpecAgg == InitAgg /\ [][NextAgg]_vars

\* get_agglomerations and evaluate_city_agglomeration_status on a region
\* whose settlements' names need not differ.
InitNames ==
    /\ LfIdle /\ FrameIdle /\ RgIdle /\ PvIdle
    /\ NamesInit
    /\ IN_AGGLOMERATION = {} /\ agglomeration_gdf = <<>> /\ pc_agg = "start"
    /\ seed_gdf = <<>> /\ merged_gdf = <<>> /\ calls = 1
SpecNames == InitNames /\ [][NextAgg]_vars

\* The operations on a region: build_network_frame, or get_agglomerations
\* and evaluate_city_agglomeration_status.
InitOperations == InitFrame \/ InitAgg
NextOperations == NextFrame \/ NextAgg
SpecOperations == InitOperations /\ [][NextOperations]_vars

(***************************************************************************)
(* Claims on LevelFiller.                                                  *)
(***************************************************************************)
\* The hierarchy intervals (lower, upper] that contain p.
IntervalsOf(p) ==
    { k \in 1..Len(population_thresholds) : InInterval(p, population_thresholds[k]) }

\* C1: for every population p > 0 exactly one of the ten intervals
\* (lower, upper] contains p, and _assign_level returns the level of that
\* interval.
C1_LevelTotalSingleValued ==
    lf_state # "input" =>
        \A r \in 1..LfRows :
            lf_gdf[r] > 0 =>
                /\ Cardinality(IntervalsOf(lf_gdf[r])) = 1
                /\ \A k \in IntervalsOf(lf_gdf[r]) :
                       lf_level[r] = population_thresholds[k].level

\* A table is classified whose rows sit on a threshold and just above one.
C1_Witness ==
    /\ lf_state = "filled"
    /\ lf_gdf[1] = 200 /\ lf_level[1] = "SmallRural"
    /\ lf_gdf[2] = 3000001 /\ lf_level[2] = "SuperLargeCity"

\* C13 (as claimed): classifying a population that no interval covers
\* (population <= 0) is reported as an error and gives that row no level
\* value, not even a default.
C13_UnclassifiableReported ==
    lf_state # "input" =>
        \A r \in 1..LfRows :
            lf_gdf[r] <= 0 =>
                /\ lf_state = "rejected"
                /\ r \notin DOMAIN lf_level

(***************************************************************************)
(* Claims on Region.                                                       *)
(***************************************************************************)
\* What the constructor must not accept.
InvalidInput(args) ==
    \/ \E i \in RgIdx : args.towns.population[i] <= 0
    \/ \E i, j \in 1..2 : args.accessibility_matrix.values[i][j] < 0
    \/ args.accessibility_matrix.index # args.accessibility_matrix.columns
    \/ args.accessibility_matrix.index # args.towns.index
    \/ args.region.geom_type \notin {"Polygon", "MultiPolygon"}
    \/ Cardinality({args.region.crs, args.districts.crs, args.settlements.crs,
                    args.towns.crs}) > 1

\* C14: constructing a Region from invalid input (a population <= 0, a
\* negative travel time, matrix labels that differ from its columns or from
\* the settlements' labels, a boundary that is no polygon, tables in
\* different coordinate systems) ends in an error, and no Region with
\* tables an algorithm could run on exists.
C14_InvalidRegionRejected ==
    (rg_state \in {"constructed", "rejected"} /\ InvalidInput(rg_args))
        => rg_state = "rejected" /\ RegionIdle

\* Nothing is wrong with the input but a population of zero, and the
\* constructor has raised.
C14_Witness ==
    /\ rg_state = "rejected"
    /\ \E i \in RgIdx : rg_args.towns.population[i] = 0
    /\ ~InvalidInput([rg_args EXCEPT !.towns.population = [i \in RgIdx |-> 1]])

(***************************************************************************)
(* Claims on build_network_frame.                                          *)
(***************************************************************************)
RECURSIVE ReachFrom(_, _)
\* The nodes joined to a node of S by a path of edges of g.
ReachFrom(g, S) ==
    LET step == S \cup { n \in NodeIds(g) :
                           \E e \in g.edges : n \in e.ends /\ e.ends \cap S # {} }
    IN IF step = S THEN S ELSE ReachFrom(g, step)

Connected(g) == \A n \in NodeIds(g) : ReachFrom(g, {n}) = NodeIds(g)

\* The settlements at a strictly denser level than row i.
Denser(i) == DenserIdxs(towns, LevelIndex(towns[i].level))

\* The densest level present has a member, and every settlement at another
\* level has a settlement at a strictly denser level.
EveryTierHasDenser ==
    /\ towns # <<>>
    /\ LevelsKnown(towns)
    /\ \A i \in DOMAIN towns :
           towns[i].level # highest_level(towns) => Denser(i) # {}

\* C2: the graph build_network_frame returns is connected whenever every
\* level but the densest present has a settlement at a strictly denser level.
C2_FrameConnected ==
    (pc_frame = "done" /\ EveryTierHasDenser) => Connected(G)

\* A graph is returned for three settlements at three different levels, the
\* nearest denser settlement of the last being row 0.
C2_Witness ==
    /\ pc_frame = "done"
    /\ Cardinality({ towns[i].level : i \in DOMAIN towns }) = NumTowns
    /\ \E i \in DOMAIN towns :
           Denser(i) # {} /\ IdxMin(accessibility_matrix[i], Denser(i)) = 0

\* C3 (as claimed): after the level loop every settlement that has a
\* settlement at a strictly denser level has an edge, tagged with its own
\* level, to a denser settlement of minimum travel time from it.
C3_NearestDenserEdge ==
    pc_frame \in {"highest", "done"} =>
        \A i \in DOMAIN towns :
            (towns[i].level \in LevelSet /\ Denser(i) # {}) =>
                \E n \in Denser(i) :
                    /\ \A m \in Denser(i) :
                           accessibility_matrix[i][n] <= accessibility_matrix[i][m]
                    /\ [ends |-> {i, n}, level |-> towns[i].level] \in G.edges

\* The settlements of the densest level present.
TopIdxs == LevelIdxs(towns, highest_level(towns))

\* The edges of G that join two settlements of the densest level.
TopEdges == { e \in G.edges : e.ends \subseteq TopIdxs }

\* E, a set of node pairs, has no cycle: some pair of every non-empty subset
\* has a node that no other pair of the subset touches.
Acyclic(E) ==
    \A F \in SUBSET E :
        F # {} => \E e \in F : \E n \in e : \A f \in F \ {e} : n \notin f

\* E joins every node of N to every other.
Spans(E, N) ==
    \A n \in N : ReachFrom([nodes |-> { [idx |-> m] : m \in N },
                            edges |-> { [ends |-> e] : e \in E }], {n}) = N

PairWeight(e) == HWeight(Min(e), Max(e))

TotalWeight(E) == SumOver([e \in E |-> PairWeight(e)], E)

\* The spanning trees of the complete graph on N.
SpanningTrees(N) ==
    { E \in SUBSET { p \in SUBSET N : Cardinality(p) = 2 } :
        Cardinality(E) = Cardinality(N) - 1 /\ Spans(E, N) }

\* C4: for the k settlements of the densest level present exactly k-1 edges
\* are added among them, the edges have no cycle, and they form a spanning
\* tree of minimum total travel time.
C4_TopLevelSpanningTree ==
    pc_frame = "done" =>
        LET E == { e.ends : e \in TopEdges }
        IN /\ Cardinality(TopEdges) = Cardinality(TopIdxs) - 1
           /\ Acyclic(E)
           /\ Spans(E, TopIdxs)
           /\ \A e \in TopEdges : e.level = highest_level(towns)
           /\ \A T \in SpanningTrees(TopIdxs) : TotalWeight(E) <= TotalWeight(T)

\* All settlements are at the densest level and the travel times differ, so
\* that some spanning tree is not minimal.
C4_Witness ==
    /\ pc_frame = "done"
    /\ TopIdxs = DOMAIN towns
    /\ \E T \in SpanningTrees(TopIdxs) :
           TotalWeight(T) > TotalWeight({ e.ends : e \in TopEdges })

(***************************************************************************)
(* Claims on AgglomerationBuilder.                                         *)
(***************************************************************************)
\* The seeds that intersect one of the seeds S.
SeedNeighbours(S) ==
    { j \in DOMAIN seed_gdf :
        \E i \in S : Intersects(seed_gdf[i].geometry, seed_gdf[j].geometry) }

RECURSIVE Chain(_)
\* The seeds joined to one of the seeds S by a chain of pairwise
\* intersections.
Chain(S) ==
    LET next == S \cup SeedNeighbours(S)
    IN IF next = S THEN S ELSE Chain(next)

\* The rows of the merged table that name seed i among their core cities.
MergedRowsOf(i) ==
    { r \in DOMAIN merged_gdf : seed_gdf[i].name \in merged_gdf[r].core_cities }

\* C5: the seeds joined by a chain of pairwise intersections end in one
\* single merged agglomeration, whose geometry is the union of theirs and
\* whose core_cities are their anchors' names.
C5_MergeIsTransitiveClosure ==
    pc_agg = "merged" =>
        \A i \in DOMAIN seed_gdf :
            /\ Cardinality(MergedRowsOf(i)) = 1
            /\ \A r \in MergedRowsOf(i) :
                  /\ merged_gdf[r].geometry =
                         UNION { seed_gdf[j].geometry : j \in Chain({i}) }
                  /\ merged_gdf[r].core_cities =
                         { seed_gdf[j].name : j \in Chain({i}) }

\* Three seeds A, B, C in the order A, C, B: A intersects B, B intersects C,
\* A does not intersect C, and the merged table has one row.
C5_Witness ==
    /\ pc_agg = "merged"
    /\ Len(seed_gdf) = 3
    /\ Intersects(seed_gdf[1].geometry, seed_gdf[3].geometry)
    /\ Intersects(seed_gdf[3].geometry, seed_gdf[2].geometry)
    /\ ~Intersects(seed_gdf[1].geometry, seed_gdf[2].geometry)
    /\ Len(merged_gdf) = 1

SeedsOf(r) == { merged_gdf[r].overlapping[n] : n \in DOMAIN merged_gdf[r].overlapping }

\* C7 (as claimed): a merged agglomeration is 'Monocentric' if exactly one
\* anchor seed was merged into it and 'Polycentric' if two or more were.
C7_TypeByAnchorCount ==
    pc_agg = "merged" =>
        \A r \in DOMAIN merged_gdf :
            merged_gdf[r].type =
                (IF Cardinality(SeedsOf(r)) = 1 THEN "Monocentric" ELSE "Polycentric")

TiersBelowDensest(level) ==
    Len(CITY_LEVELS) - (CHOOSE n \in DOMAIN CITY_LEVELS : CITY_LEVELS[n] = level)

\* The settlements within the maximum time of settlement i, by the matrix.
ReachableFrom(i) ==
    { s \in DOMAIN accessibility_matrix :
        accessibility_matrix[towns[i].id][s] <=
            80 - 10 * TiersBelowDensest(towns[i].level) }

\* The settlements that are to be anchors: of MIN_POPULATION or more (a
\* city level, by the thresholds of LevelFiller), absorbed by no anchor.
Anchors ==
    { i \in DOMAIN towns :
        /\ towns[i].population >= MIN_POPULATION
        /\ towns[i].id \notin IN_AGGLOMERATION }

\* The rows of the table returned, and of the merged table, that name
\* settlement i among their core cities.
FinalRowsNaming(i) ==
    { k \in DOMAIN agglomeration_gdf : towns[i].name \in agglomeration_gdf[k].core_cities }
MergedRowsNaming(i) ==
    { r \in DOMAIN merged_gdf : towns[i].name \in merged_gdf[r].core_cities }

\* Some part of the geometry lies inside the boundary.
MeetsRegion(geometry) == \E q \in DOMAIN region : Intersection(geometry, region[q]) # {}

\* C9 (as claimed): every settlement of MIN_POPULATION or more that no
\* anchor absorbed is a core city of exactly one agglomeration returned.
C9_AnchorInExactlyOneAgglomeration ==
    pc_agg = "done" =>
        \A i \in DOMAIN towns :
            (towns[i].population >= MIN_POPULATION /\ towns[i].id \notin IN_AGGLOMERATION) =>
                Cardinality({ k \in DOMAIN agglomeration_gdf :
                                towns[i].name \in agglomeration_gdf[k].core_cities }) = 1


\* C9 (amended): an anchor is a core city of at most one agglomeration
\* returned; one whose reachable set is empty is a core city of none; one
\* whose reachable set is not empty is a core city of exactly one merged
\* agglomeration, and of exactly one agglomeration returned unless the
\* boundary leaves nothing of that merged polygon.
C9_AnchorInAtMostOneAgglomeration ==
    pc_agg = "done" =>
        \A i \in Anchors :
            /\ Cardinality(FinalRowsNaming(i)) <= 1
            /\ ReachableFrom(i) = {} => FinalRowsNaming(i) = {}
            /\ ReachableFrom(i) # {} =>
                  /\ Cardinality(MergedRowsNaming(i)) = 1
                  /\ \A r \in MergedRowsNaming(i) :
                        MeetsRegion(merged_gdf[r].geometry) <=>
                            Cardinality(FinalRowsNaming(i)) = 1

\* The table is returned; one anchor has an empty reachable set, the polygon
\* of another is clipped away, and two others share an agglomeration.
C9_Witness ==
    /\ pc_agg = "done"
    /\ \/ \E i \in Anchors : ReachableFrom(i) = {}
       \/ \E i \in Anchors : \E r \in MergedRowsNaming(i) :
              ~MeetsRegion(merged_gdf[r].geometry)
    /\ \E i, j \in Anchors : i # j /\ FinalRowsNaming(i) = FinalRowsNaming(j)
                                   /\ FinalRowsNaming(i) # {}

\* C10: the nodes of the seed of an anchor are exactly the settlements s with
\* accessibility_matrix[anchor][s] at most 80 minutes less 10 minutes for
\* every tier the anchor's level lies below the densest.
C10_ReachableWithinMaxTime ==
    \A k \in DOMAIN seed_gdf :
        LET anchor == seed_gdf[k].anchor
            maximum == 80 - 10 * TiersBelowDensest(TownById(towns, anchor).level)
        IN seed_gdf[k].nodes =
               { s \in DOMAIN accessibility_matrix :
                   accessibility_matrix[anchor][s] <= maximum }

\* A seed of a small city and one of a super-large city; the small city is
\* exactly its maximum time from one settlement and that time is not the
\* time back.
C10_Witness ==
    /\ \E k \in DOMAIN seed_gdf :
          /\ TownById(towns, seed_gdf[k].anchor).level = "SmallCity"
          /\ \E s \in seed_gdf[k].nodes :
                /\ accessibility_matrix[seed_gdf[k].anchor][s] = 30
                /\ accessibility_matrix[s][seed_gdf[k].anchor] # 30
    /\ \E k \in DOMAIN seed_gdf :
          /\ TownById(towns, seed_gdf[k].anchor).level = "SuperLargeCity"
          /\ seed_gdf[k].nodes # DOMAIN towns

\* The level the thresholds give a population.
LevelOfPopulation(P) ==
    CHOOSE n \in 1..5 :
        /\ n = 1 <=> P <= 250000
        /\ n = 2 <=> (250000 < P /\ P <= 500000)
        /\ n = 3 <=> (500000 < P /\ P <= 1000000)
        /\ n = 4 <=> (1000000 < P /\ P <= 5000000)
        /\ n = 5 <=> 5000000 < P

\* The rows of the merged table and of every later table of the call.
AgglomerationRows ==
    { [population |-> merged_gdf[r].population,
       agglomeration_level |-> merged_gdf[r].agglomeration_level] :
        r \in DOMAIN merged_gdf }
    \cup (IF pc_agg \in {"overlaid", "reduced", "done"}
          THEN { [population |-> agglomeration_gdf[k].population,
                  agglomeration_level |-> agglomeration_gdf[k].agglomeration_level] :
                   k \in DOMAIN agglomeration_gdf }
          ELSE {})

\* C11: the agglomeration_level of a row is the level its population has by
\* the thresholds 250,000, 500,000, 1,000,000 and 5,000,000 (each inclusive
\* above); it lies in 1..5 and does not decrease with the population.
C11_LevelByPopulation ==
    /\ \A a \in AgglomerationRows :
          /\ a.agglomeration_level \in 1..5
          /\ a.agglomeration_level = LevelOfPopulation(a.population)
    /\ \A a, b \in AgglomerationRows :
          a.population <= b.population => a.agglomeration_level <= b.agglomeration_level

\* Two agglomerations are returned, one with a population on a threshold and
\* one just above it.
C11_Witness ==
    /\ pc_agg = "done"
    /\ \E a, b \in DOMAIN agglomeration_gdf :
          /\ agglomeration_gdf[a].population = 250000
          /\ agglomeration_gdf[a].agglomeration_level = 1
          /\ agglomeration_gdf[b].population = 250001
          /\ agglomeration_gdf[b].agglomeration_level = 2

\* The agglomerations of the table returned whose polygon contains the point
\* of settlement i.
AgglomerationsAround(i) ==
    { k \in DOMAIN agglomeration_gdf : towns[i].geometry \in agglomeration_gdf[k].geometry }

\* C12: evaluate_city_agglomeration_status gives 'outside' and level 0 to
\* exactly the settlements whose point lies in no agglomeration polygon; every
\* other settlement is 'center' or 'member' with a level in 1..5 that is the
\* level of an agglomeration whose polygon contains its point.
C12_StatusByPointInPolygon ==
    pc_agg = "evaluated" =>
        \A i \in DOMAIN towns :
            IF AgglomerationsAround(i) = {}
            THEN /\ towns[i].agglomeration_status = "outside"
                 /\ towns[i].agglomeration_level = 0
            ELSE /\ towns[i].agglomeration_status \in {"center", "member"}
                 /\ towns[i].agglomeration_level \in 1..5
                 /\ \E k \in AgglomerationsAround(i) :
                       towns[i].agglomeration_level =
                           agglomeration_gdf[k].agglomeration_level

\* Settlements of all three statuses, one of them a core city whose point the
\* final polygon of its agglomeration does not contain.
C12_Witness ==
    /\ pc_agg = "evaluated"
    /\ \A st \in {"outside", "center", "member"} :
          \E i \in DOMAIN towns : towns[i].agglomeration_status = st
    /\ \E i \in DOMAIN towns :
          /\ towns[i].agglomeration_status = "outside"
          /\ \E k \in DOMAIN agglomeration_gdf :
                towns[i].name \in agglomeration_gdf[k].core_cities

\* C15: a call of get_agglomerations returns what the same call returns
\* when it is the first of the process (an empty registry), whatever calls
\* were made before it.
C15_ResultIndependentOfEarlierCalls ==
    pc_agg \in {"done", "error"} =>
        LET first == get_agglomerations(towns, region, {})
        IN /\ (pc_agg = "error") = first.raised
           /\ agglomeration_gdf = first.gdf

\* The columns a settlement is given by.
InputColumns(row) ==
    [id |-> row.id, name |-> row.name, population |-> row.population,
     level |-> row.level, geometry |-> row.geometry]

\* C16: no step of build_network_frame, get_agglomerations or
\* evaluate_city_agglomeration_status changes the id, name, population,
\* level or geometry of a settlement, or a value of the accessibility matrix.
C16_InputsUnchanged ==
    [][/\ accessibility_matrix' = accessibility_matrix
       /\ DOMAIN towns' = DOMAIN towns
       /\ \A i \in DOMAIN towns : InputColumns(towns'[i]) = InputColumns(towns[i])]_vars

\* evaluate_city_agglomeration_status has set its two columns, with a
\* settlement inside an agglomeration and one outside.
C16_Witness ==
    /\ pc_agg = "evaluated"
    /\ \E i, j \in DOMAIN towns :
          /\ towns[i].agglomeration_status = "outside"
          /\ towns[j].agglomeration_level > 0

\* The denser settlements that tie for the least travel time from i.
TiedNearest(i) ==
    { n \in Denser(i) : \A m \in Denser(i) :
          accessibility_matrix[i][n] <= accessibility_matrix[i][m] }

\* C17: in the graph build_network_frame returns no pair of settlements is
\* joined by two edges, and a settlement with several denser settlements
\* tied for the least travel time is joined, with its own level as the
\* tag, to the first of them in ascending order.
C17_FirstOfTiedNearest ==
    pc_frame \in {"highest", "done"} =>
        /\ \A e1, e2 \in G.edges : e1.ends = e2.ends => e1 = e2
        /\ \A i \in DOMAIN towns :
               (towns[i].level \in LevelSet /\ Cardinality(TiedNearest(i)) > 1) =>
                   [ends |-> {i, Min(TiedNearest(i))}, level |-> towns[i].level]
                       \in G.edges

NoQualifyingAnchor ==
    \A i \in DOMAIN towns :
        ~(/\ \E k \in 1..Len(CITY_LEVELS) : towns[i].level = CITY_LEVELS[k]
          /\ towns[i].population >= MIN_POPULATION)

\* C19: when no settlement qualifies as an anchor, get_agglomerations ends
\* without an error and returns an empty table.
C19_NoAnchorEmptyResult ==
    (pc_agg \in {"done", "error"} /\ NoQualifyingAnchor) =>
        pc_agg = "done" /\ agglomeration_gdf = <<>>

\* The less dense of the levels of the two ends of an edge.
LowerLevel(e) ==
    levels[Min({ LevelIndex(towns[i].level) : i \in e.ends })]

\* C20: every edge of the graph build_network_frame returns carries the
\* less dense of its ends' levels as level, and the travel time between its
\* ends in the accessibility matrix as weight.
C20_EdgesCarryLevelAndTime ==
    pc_frame = "done" =>
        \A e \in G.edges :
            /\ e.level = LowerLevel(e)
            /\ "weight" \in DOMAIN e
            /\ \E u, v \in e.ends : u # v /\ e.weight = accessibility_matrix[u][v]

\* C21: the nodes of the graph of build_network_frame are the ids of the
\* settlements, one node for each, and a node carries the position and the
\* level of the settlement with that id.
C21_NodesAreSettlementIds ==
    pc_frame \in {"levels", "highest", "done", "error"} =>
        /\ { n.idx : n \in G.nodes } = { towns[i].id : i \in DOMAIN towns }
        /\ Cardinality(G.nodes) = Cardinality(DOMAIN towns)
        /\ \A n \in G.nodes : \E i \in DOMAIN towns :
               /\ towns[i].id = n.idx
               /\ n.pos = towns[i].geometry
               /\ n.level = towns[i].level

\* The rows of the table returned whose polygon covers the point of the
\* settlement with id s and that name the anchor among their core cities.
CoveringRows(anchor, s) ==
    { r \in DOMAIN agglomeration_gdf :
        /\ TownById(towns, anchor).name \in agglomeration_gdf[r].core_cities
        /\ PointIntersects(TownById(towns, s).geometry, agglomeration_gdf[r].geometry) }

\* C22: the point of every settlement of the reachable set of an anchor is
\* covered by the polygon of the agglomeration returned for that anchor.
C22_ReachableSetCovered ==
    pc_agg = "done" =>
        \A k \in DOMAIN seed_gdf : \A s \in seed_gdf[k].nodes :
            CoveringRows(seed_gdf[k].anchor, s) # {}

\* The seeds _build_agglomeration made, once it has returned.
BuiltSeeds == IF pc_agg = "built" THEN agglomeration_gdf ELSE seed_gdf

\* C23: an anchor with an empty reachable set has no row among the seeds,
\* and the registry holds nothing but the members below MIN_POPULATION of
\* the seeds that were made.
C23_EmptyReachableSetDropped ==
    pc_agg \notin {"idle", "start"} =>
        /\ \A i \in DOMAIN towns :
               ReachableFrom(i) = {} =>
                   \A k \in DOMAIN BuiltSeeds : BuiltSeeds[k].anchor # towns[i].id
        /\ IN_AGGLOMERATION =
               UNION { Absorbed(towns, BuiltSeeds[k].nodes) : k \in DOMAIN BuiltSeeds }

\* A settlement of MIN_POPULATION or more is out of reach of itself and of
\* every other, and another anchor has absorbed a settlement.
C23_Witness ==
    /\ pc_agg = "built"
    /\ \E i \in DOMAIN towns :
          towns[i].population >= MIN_POPULATION /\ ReachableFrom(i) = {}
    /\ IN_AGGLOMERATION # {}

\* C24: the anchor of every seed has MIN_POPULATION or more and is in the
\* reachable set of no earlier seed as a settlement below MIN_POPULATION;
\* every member of a seed below MIN_POPULATION is in the registry, and
\* nothing of MIN_POPULATION or more is.
C24_SeedsAndAbsorbed ==
    pc_agg \notin {"idle", "start"} =>
        /\ \A k \in DOMAIN BuiltSeeds :
               /\ TownById(towns, BuiltSeeds[k].anchor).population >= MIN_POPULATION
               /\ \A j \in 1..(k - 1) :
                      BuiltSeeds[k].anchor \notin Absorbed(towns, BuiltSeeds[j].nodes)
               /\ \A s \in BuiltSeeds[k].nodes :
                      TownById(towns, s).population < MIN_POPULATION
                          => s \in IN_AGGLOMERATION
        /\ \A s \in IN_AGGLOMERATION : TownById(towns, s).population < MIN_POPULATION

\* A seed with a member below MIN_POPULATION, which is in the registry, and
\* a member, not its anchor, of MIN_POPULATION or more.
C24_Witness ==
    /\ pc_agg = "built"
    /\ \E k \in DOMAIN agglomeration_gdf :
          /\ \E s \in agglomeration_gdf[k].nodes :
                 TownById(towns, s).population < MIN_POPULATION
          /\ \E s \in agglomeration_gdf[k].nodes :
                 /\ s # agglomeration_gdf[k].anchor
                 /\ TownById(towns, s).population >= MIN_POPULATION
    /\ IN_AGGLOMERATION # {}

\* The edges of G from settlement i to a settlement at a denser level.
UpEdges(i) == { e \in G.edges : i \in e.ends /\ e.ends \cap Denser(i) # {} }

\* C25: the graph build_network_frame returns for settlements at the ten
\* levels is a tree: one edge from every settlement below the densest level
\* present to a denser settlement, one edge less than settlements among
\* those of the densest level, n - 1 edges in all and no cycle.
C25_FrameIsTree ==
    (pc_frame = "done" /\ LevelsKnown(towns)) =>
        /\ \A i \in DOMAIN towns \ TopIdxs : Cardinality(UpEdges(i)) = 1
        /\ Cardinality(TopEdges) = Cardinality(TopIdxs) - 1
        /\ Cardinality(G.edges) = Cardinality(DOMAIN towns) - 1
        /\ Acyclic({ e.ends : e \in G.edges })
        /\ Connected(G)

\* Two settlements at the densest level, and one below whose nearest denser
\* settlement by travel time is row 0, so that its edge is the fallback's.
C25_Witness ==
    /\ pc_frame = "done"
    /\ Cardinality(TopIdxs) = 2
    /\ \E i \in DOMAIN towns \ TopIdxs :
          /\ IdxMin(accessibility_matrix[i], Denser(i)) = 0
          /\ [ends |-> {i, 0}, level |-> towns[i].level] \notin G.edges

\* The rows of the merged table that seed i was merged into.
OutputsOf(i) == { r \in DOMAIN merged_gdf : i \in SeedsOf(r) }

\* C26: the merge partitions the seeds: every seed is in exactly one merged
\* row, the seeds of a merged row are joined by chains of intersecting
\* seeds, and there are no more merged rows than seeds.
C26_MergePartitionsSeeds ==
    pc_agg = "merged" =>
        /\ \A i \in DOMAIN seed_gdf : Cardinality(OutputsOf(i)) = 1
        /\ \A r \in DOMAIN merged_gdf :
               /\ SeedsOf(r) \subseteq DOMAIN seed_gdf
               /\ \A i, j \in SeedsOf(r) : j \in Chain({i})
        /\ Len(merged_gdf) <= Len(seed_gdf)

\* Five seeds in two merged rows, four of them in one.
C26_Witness ==
    /\ pc_agg = "merged"
    /\ Len(seed_gdf) = 5
    /\ Len(merged_gdf) = 2
    /\ \E r \in DOMAIN merged_gdf : Cardinality(SeedsOf(r)) = 4

\* C27: the merge ends: the while loop of a group makes at most one pass
\* more than it adds seeds to the processed set, so at most one more than
\* there are seeds, and at the end every seed is processed.
C27_MergeTerminates ==
    pc_agg = "merged" =>
        /\ \A r \in DOMAIN merged_gdf :
               /\ merged_gdf[r].passes >= 1
               /\ merged_gdf[r].passes <= Cardinality(SeedsOf(r)) + 1
               /\ merged_gdf[r].passes <= Len(seed_gdf) + 1
        /\ UNION { SeedsOf(r) : r \in DOMAIN merged_gdf } = DOMAIN seed_gdf

\* A seed joined its group in the while loop, after the group's first seed
\* was met again, and the loop made a second pass.
C27_Witness ==
    /\ pc_agg = "merged"
    /\ \E r \in DOMAIN merged_gdf :
          /\ merged_gdf[r].passes = 2
          /\ \E p \in 2..(Len(merged_gdf[r].overlapping) - 1) :
                 merged_gdf[r].overlapping[p] = merged_gdf[r].overlapping[1]

\* The settlements at a city level with MIN_POPULATION or more that reach
\* some settlement within their maximum time.
QualifiedIds ==
    { towns[i].id : i \in { n \in DOMAIN towns :
        /\ \E k \in 1..Len(CITY_LEVELS) : towns[n].level = CITY_LEVELS[k]
        /\ towns[n].population >= MIN_POPULATION
        /\ ReachableFrom(n) # {} } }

\* C28: in a call that starts with an empty registry the registry holds
\* settlements below MIN_POPULATION only, and the settlements that seed an
\* agglomeration are those at a city level with MIN_POPULATION or more,
\* each once.
C28_RegistryExcludesNoAnchor ==
    pc_agg \notin {"idle", "start"} =>
        /\ \A i \in DOMAIN towns :
               towns[i].id \in IN_AGGLOMERATION => towns[i].population < MIN_POPULATION
        /\ { BuiltSeeds[k].anchor : k \in DOMAIN BuiltSeeds } = QualifiedIds
        /\ Len(BuiltSeeds) = Cardinality(QualifiedIds)

\* Two seeds, the anchor of the second a member of the first, and a
\* settlement in the registry.
C28_Witness ==
    /\ pc_agg = "built"
    /\ IN_AGGLOMERATION # {}
    /\ \E j, k \in DOMAIN agglomeration_gdf :
          j < k /\ agglomeration_gdf[k].anchor \in agglomeration_gdf[j].nodes

\* The anchors of the seeds merged into row k of the table returned.
AnchorsOf(k) == { seed_gdf[j].anchor : j \in SeedsOf(agglomeration_gdf[k].merged) }

\* C29: evaluate_city_agglomeration_status calls a settlement a centre
\* exactly when it is the anchor of a seed merged into an agglomeration
\* whose polygon its point lies in.
C29_CenterIsAnchor ==
    pc_agg = "evaluated" =>
        \A i \in DOMAIN towns :
            towns[i].agglomeration_status = "center" <=>
                \E k \in DOMAIN agglomeration_gdf :
                    /\ PointIntersects(towns[i].geometry, agglomeration_gdf[k].geometry)
                    /\ towns[i].id \in AnchorsOf(k)

(***************************************************************************)
(* Claims on ProvisionModel.get_provision.                                *)
(***************************************************************************)
\* The pass of the allocation loop has visited every block.
PassOver == pc_pv = "for" /\ pv_pos \notin DOMAIN graph.nodes

\* C30: get_provision terminates.  A pass of the allocation loop either
\* lowers both total_load and total_capacity by at least one unit, or
\* leaves one of them as it was and the loop stops; the allocations lower
\* total_load and total_capacity by the same amount; and the capacity of
\* a service block is never negative.
C30_ProvisionTerminates ==
    /\ [][PassOver =>
            \/ /\ total_load <= prev_total_load - load
               /\ total_capacity <= prev_total_capacity - load
            \/ /\ total_load = prev_total_load \/ total_capacity = prev_total_capacity
               /\ pc_pv' = "done"]_vars
    /\ [](pc_pv = "for" =>
            prev_total_load - total_load = prev_total_capacity - total_capacity)
    /\ [](pc_pv # "idle" =>
            \A n \in DOMAIN graph.nodes : graph.nodes[n].capacity >= 0)
    /\ <>(pc_pv = "done")

\* The loop stopped on a pass that allocated nothing, with capacity left,
\* after a block was provided for in two passes and another by a service
\* farther than the accessibility.
C30_Witness ==
    /\ pc_pv = "done"
    /\ total_capacity > 0
    /\ total_load = prev_total_load
    /\ \E n, m \in DOMAIN graph.nodes :
          /\ graph.nodes[n].population_prov >= 2 * load
          /\ graph.nodes[m].small_prov > 0

====
